---- MODULE Spec2Model ----
(***************************************************************************)
(* Model of the demand-paging simulator of src/simulador_v3.py: the        *)
(* MemoryManager object (TLB, page table, frames, FIFO/LRU replacement)    *)
(* and the command loop of main that drives it.                            *)
(*                                                                         *)
(* Python values are rendered as follows.                                  *)
(*   None            <<>>          an Optional x is <<>> or <<x>>          *)
(*   str             a sequence of one-character strings                   *)
(*   list            a sequence; Python index i is position i + 1          *)
(*   dict            page_table: a function on its key set;                *)
(*                   uso_recente: a sequence of [pagina, tempo] records    *)
(*                   in insertion order (min() scans in that order)        *)
(*   bytes           a sequence of integers 0..255                         *)
(***************************************************************************)
EXTENDS Integers, Sequences, FiniteSets, TLC

(***************************************************************************)
(* Bounds of the model.                                                    *)
(***************************************************************************)
\* Frame counts 1..MaxQuadros are explored by Spec.
MaxQuadros == 3
\* Number of acessar calls explored by Spec.
MaxAcessos == 5
\* Number of acessar calls explored by SpecEx.
MaxAcessosEx == 6
\* SpecDecomp draws addresses within MaxDesvio of the boundaries of the 16-bit range.
MaxDesvio == 40
\* Number of lines of the address file read by SpecMain.
MaxLinhas == 3
\* Capacity of the TLB (self.tlb_size, 16 in the source), scaled so that the
\* capacity eviction of atualiza_tlb happens within MaxQuadros frames.
tlb_size == 2

(***************************************************************************)
(* Program constants.                                                      *)
(***************************************************************************)
page_size == 256
offset_bits == 8
MASCARA_16 == 65535
BYTE_SINAL == 127
BYTE_MOD == 256

None == <<>>
Some(x) == <<x>>
Val(o) == o[1]

(***************************************************************************)
(* Integer operators of Python, on unbounded integers (two's complement    *)
(* for negative operands).  The right operand of & and | is >= 0 here.     *)
(***************************************************************************)
RECURSIVE BitAnd(_, _)
BitAnd(x, m) ==
    IF m = 0 THEN 0
    ELSE (IF x % 2 = 1 /\ m % 2 = 1 THEN 1 ELSE 0) + 2 * BitAnd(x \div 2, m \div 2)

RECURSIVE BitOr(_, _)
BitOr(x, y) ==
    IF x = 0 THEN y
    ELSE IF y = 0 THEN x
    ELSE (IF x % 2 = 1 \/ y % 2 = 1 THEN 1 ELSE 0) + 2 * BitOr(x \div 2, y \div 2)

ShiftLeft(x, n) == x * (2 ^ n)
ShiftRight(x, n) == x \div (2 ^ n)

(***************************************************************************)
(* str.upper() on ASCII strings.                                           *)
(***************************************************************************)
Minusculas ==
    <<"a", "b", "c", "d", "e", "f", "g", "h", "i", "j", "k", "l", "m",
      "n", "o", "p", "q", "r", "s", "t", "u", "v", "w", "x", "y", "z">>
Maiusculas ==
    <<"A", "B", "C", "D", "E", "F", "G", "H", "I", "J", "K", "L", "M",
      "N", "O", "P", "Q", "R", "S", "T", "U", "V", "W", "X", "Y", "Z">>

UpperChar(c) ==
    IF \E i \in 1..Len(Minusculas) : Minusculas[i] = c
    THEN Maiusculas[CHOOSE i \in 1..Len(Minusculas) : Minusculas[i] = c]
    ELSE c

upper(s) == [i \in 1..Len(s) |-> UpperChar(s[i])]

FIFO == <<"F", "I", "F", "O">>
LRU == <<"L", "R", "U">>
PAGETABLE == <<"P", "A", "G", "E", "T", "A", "B", "L", "E">>
TLB == <<"T", "L", "B">>

(***************************************************************************)
(* str.strip() and int(str) of Python, on ASCII strings.                   *)
(***************************************************************************)
EhEspaco(c) == c \in {" ", "\n", "\t", "\r"}

RECURSIVE lstrip(_)
lstrip(s) == IF s # <<>> /\ EhEspaco(Head(s)) THEN lstrip(Tail(s)) ELSE s

RECURSIVE rstrip(_)
rstrip(s) == IF s # <<>> /\ EhEspaco(s[Len(s)]) THEN rstrip(SubSeq(s, 1, Len(s) - 1)) ELSE s

strip(s) == rstrip(lstrip(s))

Digitos == <<"0", "1", "2", "3", "4", "5", "6", "7", "8", "9">>
EhDigito(c) == \E i \in 1..Len(Digitos) : Digitos[i] = c
ValorDigito(c) == (CHOOSE i \in 1..Len(Digitos) : Digitos[i] = c) - 1

\* The digits of an integer literal: decimal digits, with single underscores
\* allowed between two digits.
LiteralValido(c) ==
    /\ Len(c) > 0
    /\ \A i \in 1..Len(c) :
           \/ EhDigito(c[i])
           \/ /\ c[i] = "_"
              /\ 1 < i /\ i < Len(c)
              /\ EhDigito(c[i - 1]) /\ EhDigito(c[i + 1])

RECURSIVE ValorLiteral(_, _)
ValorLiteral(c, acc) ==
    IF c = <<>> THEN acc
    ELSE IF Head(c) = "_" THEN ValorLiteral(Tail(c), acc)
    ELSE ValorLiteral(Tail(c), 10 * acc + ValorDigito(Head(c)))

SemSinal(t) == IF t # <<>> /\ Head(t) \in {"+", "-"} THEN Tail(t) ELSE t

\* Mutant of IntDe: a text that is no integer literal is read as 0 (no ValueError).
IntDe_zero(t) ==
    IF ~LiteralValido(SemSinal(t))
    THEN Some(0)
    ELSE IF Head(t) = "-"
    THEN Some(0 - ValorLiteral(SemSinal(t), 0))
    ELSE Some(ValorLiteral(SemSinal(t), 0))

\* int(s): <<n>>, or None where Python raises ValueError.
IntDe(t) ==
    IF ~LiteralValido(SemSinal(t))
    THEN None
    ELSE IF Head(t) = "-"
    THEN Some(0 - ValorLiteral(SemSinal(t), 0))
    ELSE Some(ValorLiteral(SemSinal(t), 0))

int(s) == IntDe(strip(s))

(***************************************************************************)
(* BACKING_STORE.bin: a read-only file.  Its full content is 256 pages of  *)
(* 256 bytes; store_tam is the length of the file actually present.        *)
(***************************************************************************)
StoreByte(i) == (i + 7 * (i \div 256)) % 256

\* file.seek(pos); file.read(n): the bytes [pos, min(pos + n, length)).
FileRead(tam, pos, n) ==
    LET fim == IF pos + n <= tam THEN pos + n ELSE tam
    IN  IF fim <= pos THEN <<>> ELSE [i \in 1..(fim - pos) |-> StoreByte(pos + i - 1)]

(***************************************************************************)
(* MemoryManager.  Each method is an operator on the object's record       *)
(* `self`; a method that returns a value yields [self |-> .., ret |-> ..]. *)
(* self.saiu is <<e>> once the method has printed a message and called     *)
(* sys.exit(1), e naming the message: the caller then runs no further      *)
(* statement.                                                              *)
(***************************************************************************)
\* print(f"Erro ao ler pagina {pagina} do BACKING_STORE."); sys.exit(1)
ERRO_LEITURA == "Erro ao ler pagina do BACKING_STORE."
\* print("Algoritmo invalido."); sys.exit(1)
ERRO_ALGORITMO == "Algoritmo invalido."

MemoryManager(n_quadros, alg, tam) ==
    [ num_quadros     |-> n_quadros,
      algoritmo       |-> upper(alg),
      page_table      |-> <<>>,
      tlb             |-> <<>>,
      quadros         |-> [i \in 1..n_quadros |-> None],
      physical_memory |-> [i \in 1..n_quadros |-> None],
      fifo_queue      |-> <<>>,
      uso_recente     |-> <<>>,
      tlb_hits        |-> 0,
      page_faults     |-> 0,
      acessos         |-> 0,
      clock           |-> 0,
      store_tam       |-> tam,
      saiu            |-> None ]

\* dict operations on uso_recente (insertion-ordered).
DictHas(d, k) == \E i \in 1..Len(d) : d[i].pagina = k

DictSet(d, k, v) ==
    IF DictHas(d, k)
    THEN [i \in 1..Len(d) |-> IF d[i].pagina = k THEN [pagina |-> k, tempo |-> v] ELSE d[i]]
    ELSE Append(d, [pagina |-> k, tempo |-> v])

DictDel(d, k) == SelectSeq(d, LAMBDA e : e.pagina # k)

\* min(d, key=d.get): the first key, in iteration order, whose value is minimal.
DictMinKey(d) ==
    LET i == CHOOSE j \in 1..Len(d) :
                 /\ \A k \in 1..Len(d) : d[j].tempo <= d[k].tempo
                 /\ \A k \in 1..(j - 1) : d[k].tempo > d[j].tempo
    IN  d[i].pagina

\* Mutant of IndexNone: the position found is always the first of the list.
IndexNone_zero(l) == 0

\* list.index(None): the first position holding None (0-based).
IndexNone(l) == (CHOOSE i \in 1..Len(l) : l[i] = None /\ \A j \in 1..(i - 1) : l[j] # None) - 1

\* Mutant of carrega_pagina: the length test of lines 48-50 is missing and a short
\* read is handed on, padded with zero bytes.
carrega_pagina_sem_teste(self, pagina) ==
    [self |-> self,
     ret |-> [i \in 1..page_size |->
                 IF i <= Len(FileRead(self.store_tam, pagina * page_size, page_size))
                 THEN FileRead(self.store_tam, pagina * page_size, page_size)[i]
                 ELSE 0]]

carrega_pagina(self, pagina) ==
    LET page_data == FileRead(self.store_tam, pagina * page_size, page_size)
    IN  IF Len(page_data) # page_size
        THEN [self |-> [self EXCEPT !.saiu = Some(ERRO_LEITURA)], ret |-> None]
        ELSE [self |-> self, ret |-> page_data]

\* Mutant of buscar_na_tlb: only the first entry of the TLB is examined.
buscar_na_tlb_primeira(self, pagina) ==
    IF self.tlb # <<>> /\ self.tlb[1].pagina = pagina
    THEN Some(self.tlb[1].quadro)
    ELSE None

buscar_na_tlb(self, pagina) ==
    IF \E i \in 1..Len(self.tlb) : self.tlb[i].pagina = pagina
    THEN LET i == CHOOSE j \in 1..Len(self.tlb) :
                      /\ self.tlb[j].pagina = pagina
                      /\ \A k \in 1..(j - 1) : self.tlb[k].pagina # pagina
         IN  Some(self.tlb[i].quadro)
    ELSE None

\* Mutant of atualiza_tlb: the capacity test is dropped, the TLB only grows.
atualiza_tlb_sem_limite(self, pagina, quadro) ==
    [self EXCEPT !.tlb = Append(@, [pagina |-> pagina, quadro |-> quadro])]

\* Mutant of atualiza_tlb: the capacity test is off by one, the TLB holds one entry
\* fewer.
atualiza_tlb_um_a_menos(self, pagina, quadro) ==
    [self EXCEPT !.tlb = Append(IF Len(@) >= tlb_size - 1 THEN Tail(@) ELSE @,
                                [pagina |-> pagina, quadro |-> quadro])]

\* Mutant of atualiza_tlb: pop() instead of pop(0), the newest entry is removed.
atualiza_tlb_remove_ultimo(self, pagina, quadro) ==
    [self EXCEPT !.tlb = Append(IF Len(@) >= tlb_size THEN SubSeq(@, 1, Len(@) - 1) ELSE @,
                                [pagina |-> pagina, quadro |-> quadro])]

atualiza_tlb(self, pagina, quadro) ==
    [self EXCEPT !.tlb = Append(IF Len(@) >= tlb_size THEN Tail(@) ELSE @,
                                [pagina |-> pagina, quadro |-> quadro])]

\* Mutant of remover_da_tlb: the victim's entries stay in the TLB.
remover_da_tlb_nada(self, pagina) == self

remover_da_tlb(self, pagina) ==
    [self EXCEPT !.tlb = SelectSeq(@, LAMBDA entrada : entrada.pagina # pagina)]

\* Mutant of substituicao_fifo_instala: the loaded bytes are not stored in the frame.
substituicao_fifo_instala_sem_dados(c, quadro, pagina_nova) ==
    IF c.self.saiu # None
    THEN [self |-> c.self, ret |-> None]
    ELSE [self |-> [c.self EXCEPT !.quadros[quadro + 1] = Some(pagina_nova),
                                  !.fifo_queue = Append(@, pagina_nova)],
          ret |-> Some(quadro)]

\* Lines 158-162: c is the outcome of carrega_pagina(pagina_nova).
substituicao_fifo_instala(c, quadro, pagina_nova) ==
    IF c.self.saiu # None
    THEN [self |-> c.self, ret |-> None]
    ELSE [self |-> [c.self EXCEPT !.physical_memory[quadro + 1] = c.ret,
                                  !.quadros[quadro + 1] = Some(pagina_nova),
                                  !.fifo_queue = Append(@, pagina_nova)],
          ret |-> Some(quadro)]

\* Mutant of substituicao_fifo_vitima: line 154 is missing, the victim stays valid.
substituicao_fifo_vitima_sem_invalidar(self, pagina_a_substituir, pagina_nova) ==
    substituicao_fifo_instala(
        carrega_pagina(remover_da_tlb(self, pagina_a_substituir), pagina_nova),
        self.page_table[pagina_a_substituir].quadro,
        pagina_nova)

\* Lines 153-157, with pagina_a_substituir already popped from fifo_queue.
substituicao_fifo_vitima(self, pagina_a_substituir, pagina_nova) ==
    substituicao_fifo_instala(
        carrega_pagina(
            remover_da_tlb([self EXCEPT !.page_table[pagina_a_substituir].valido = FALSE],
                           pagina_a_substituir),
            pagina_nova),
        self.page_table[pagina_a_substituir].quadro,
        pagina_nova)

\* Mutant of substituicao_fifo: pop() instead of pop(0), the newest page is the victim.
substituicao_fifo_ultimo(self, pagina_nova) ==
    substituicao_fifo_vitima(
        [self EXCEPT !.fifo_queue = SubSeq(@, 1, Len(@) - 1)],
        self.fifo_queue[Len(self.fifo_queue)], pagina_nova)

substituicao_fifo(self, pagina_nova) ==
    substituicao_fifo_vitima([self EXCEPT !.fifo_queue = Tail(@)],
                             Head(self.fifo_queue), pagina_nova)

\* Mutant of substituicao_lru_instala: the loaded bytes are not stored in the frame.
substituicao_lru_instala_sem_dados(c, quadro, pagina_nova) ==
    IF c.self.saiu # None
    THEN [self |-> c.self, ret |-> None]
    ELSE [self |-> [c.self EXCEPT !.quadros[quadro + 1] = Some(pagina_nova),
                                  !.uso_recente = DictSet(@, pagina_nova, c.self.clock)],
          ret |-> Some(quadro)]

\* Lines 184-188: c is the outcome of carrega_pagina(pagina_nova).
substituicao_lru_instala(c, quadro, pagina_nova) ==
    IF c.self.saiu # None
    THEN [self |-> c.self, ret |-> None]
    ELSE [self |-> [c.self EXCEPT !.physical_memory[quadro + 1] = c.ret,
                                  !.quadros[quadro + 1] = Some(pagina_nova),
                                  !.uso_recente = DictSet(@, pagina_nova, c.self.clock)],
          ret |-> Some(quadro)]

\* Mutant of substituicao_lru_vitima: line 181 is missing, the victim keeps its
\* timestamp.
substituicao_lru_vitima_sem_del(self, pagina_a_substituir, pagina_nova) ==
    substituicao_lru_instala(
        carrega_pagina(
            remover_da_tlb([self EXCEPT !.page_table[pagina_a_substituir].valido = FALSE],
                           pagina_a_substituir),
            pagina_nova),
        self.page_table[pagina_a_substituir].quadro,
        pagina_nova)

\* Lines 178-183, with pagina_a_substituir chosen.
substituicao_lru_vitima(self, pagina_a_substituir, pagina_nova) ==
    substituicao_lru_instala(
        carrega_pagina(
            [remover_da_tlb([self EXCEPT !.page_table[pagina_a_substituir].valido = FALSE],
                            pagina_a_substituir)
                EXCEPT !.uso_recente = DictDel(@, pagina_a_substituir)],
            pagina_nova),
        self.page_table[pagina_a_substituir].quadro,
        pagina_nova)

substituicao_lru(self, pagina_nova) ==
    substituicao_lru_vitima(self, DictMinKey(self.uso_recente), pagina_nova)

\* Lines 124-130: c is the outcome of carrega_pagina(pagina), quadro the free frame.
tratar_page_fault_livre(c, quadro, pagina) ==
    IF c.self.saiu # None
    THEN [self |-> c.self, ret |-> None]
    ELSE [self |-> IF c.self.algoritmo = FIFO
                   THEN [c.self EXCEPT !.physical_memory[quadro + 1] = c.ret,
                                       !.quadros[quadro + 1] = Some(pagina),
                                       !.fifo_queue = Append(@, pagina)]
                   ELSE IF c.self.algoritmo = LRU
                   THEN [c.self EXCEPT !.physical_memory[quadro + 1] = c.ret,
                                       !.quadros[quadro + 1] = Some(pagina),
                                       !.uso_recente = DictSet(@, pagina, c.self.clock)]
                   ELSE [c.self EXCEPT !.physical_memory[quadro + 1] = c.ret,
                                       !.quadros[quadro + 1] = Some(pagina)],
          ret |-> Some(quadro)]

\* Mutant of tratar_page_fault: only the first frame is tested for being free
\* (self.quadros[0] is None instead of None in self.quadros).
tratar_page_fault_so_primeiro(self, pagina) ==
    IF self.quadros[1] = None
    THEN tratar_page_fault_livre(carrega_pagina(self, pagina), 0, pagina)
    ELSE IF self.algoritmo = FIFO
         THEN substituicao_fifo(self, pagina)
         ELSE IF self.algoritmo = LRU
         THEN substituicao_lru(self, pagina)
         ELSE [self |-> [self EXCEPT !.saiu = Some(ERRO_ALGORITMO)], ret |-> None]

tratar_page_fault(self, pagina) ==
    IF \E i \in 1..Len(self.quadros) : self.quadros[i] = None
    THEN tratar_page_fault_livre(carrega_pagina(self, pagina), IndexNone(self.quadros), pagina)
    ELSE IF self.algoritmo = FIFO
         THEN substituicao_fifo(self, pagina)
         ELSE IF self.algoritmo = LRU
         THEN substituicao_lru(self, pagina)
         ELSE [self |-> [self EXCEPT !.saiu = Some(ERRO_ALGORITMO)], ret |-> None]

ler_memoria(self, quadro, offset) ==
    LET byte_value == self.physical_memory[quadro + 1][offset + 1]
    IN  IF byte_value > BYTE_SINAL THEN byte_value - BYTE_MOD ELSE byte_value

\* Mutant of pagina_de: the 16-bit mask of line 58 is missing.
pagina_de_sem_mascara(endereco_virtual) == ShiftRight(endereco_virtual, offset_bits)

\* Lines 58-62: the page number and the offset acessar derives from its argument.
pagina_de(endereco_virtual) == ShiftRight(BitAnd(endereco_virtual, MASCARA_16), offset_bits)
offset_de(endereco_virtual) ==
    BitAnd(BitAnd(endereco_virtual, MASCARA_16), ShiftLeft(1, offset_bits) - 1)

\* self.page_table[pagina] = entrada
PageTableSet(pt, pagina, entrada) ==
    [p \in (DOMAIN pt) \cup {pagina} |-> IF p = pagina THEN entrada ELSE pt[p]]

\* Mutant of acessar_page_fault: line 77 writes the entry with 'valido': False.
acessar_page_fault_invalido(f, pagina) ==
    IF f.self.saiu # None
    THEN f
    ELSE [self |-> atualiza_tlb(
                       [f.self EXCEPT !.page_table =
                            PageTableSet(@, pagina, [quadro |-> Val(f.ret), valido |-> FALSE])],
                       pagina, Val(f.ret)),
          ret |-> f.ret]

\* Lines 77-78: f is the outcome of tratar_page_fault(pagina).
acessar_page_fault(f, pagina) ==
    IF f.self.saiu # None
    THEN f
    ELSE [self |-> atualiza_tlb(
                       [f.self EXCEPT !.page_table =
                            PageTableSet(@, pagina, [quadro |-> Val(f.ret), valido |-> TRUE])],
                       pagina, Val(f.ret)),
          ret |-> f.ret]

\* Mutant of acessar_resolve: the TLB and page-table lookups are ignored, every
\* access is handled as a page fault.
acessar_resolve_sempre_falta(self, pagina, na_tlb) ==
    acessar_page_fault(tratar_page_fault([self EXCEPT !.page_faults = @ + 1], pagina),
                       pagina)

\* Mutant of acessar_resolve: a page-table hit is counted as a TLB hit.
acessar_resolve_conta_hit(self, pagina, na_tlb) ==
    IF na_tlb # None
    THEN [self |-> [self EXCEPT !.tlb_hits = @ + 1], ret |-> na_tlb]
    ELSE IF pagina \in DOMAIN self.page_table /\ self.page_table[pagina].valido
    THEN [self |-> atualiza_tlb([self EXCEPT !.tlb_hits = @ + 1], pagina,
                                self.page_table[pagina].quadro),
          ret |-> Some(self.page_table[pagina].quadro)]
    ELSE acessar_page_fault(tratar_page_fault([self EXCEPT !.page_faults = @ + 1], pagina),
                            pagina)

\* Lines 66-78: na_tlb is the outcome of buscar_na_tlb(pagina).
acessar_resolve(self, pagina, na_tlb) ==
    IF na_tlb # None
    THEN [self |-> [self EXCEPT !.tlb_hits = @ + 1], ret |-> na_tlb]
    ELSE IF pagina \in DOMAIN self.page_table /\ self.page_table[pagina].valido
    THEN [self |-> atualiza_tlb(self, pagina, self.page_table[pagina].quadro),
          ret |-> Some(self.page_table[pagina].quadro)]
    ELSE acessar_page_fault(tratar_page_fault([self EXCEPT !.page_faults = @ + 1], pagina),
                            pagina)

\* Mutant of acessar_retorno: the frame number is not shifted (line 84 without <<).
acessar_retorno_sem_shift(self, quadro, offset) ==
    [self |-> self,
     ret |-> Some(<<BitOr(quadro, offset), ler_memoria(self, quadro, offset)>>)]

\* Lines 83-88.
acessar_retorno(self, quadro, offset) ==
    [self |-> self,
     ret |-> Some(<<BitOr(ShiftLeft(quadro, offset_bits), offset),
                    ler_memoria(self, quadro, offset)>>)]

\* Mutant of acessar_lru: the timestamp is not refreshed on an access (lines 80-81
\* missing), so only the load time of a page counts.
acessar_lru_sem_refresh(r, pagina, offset) ==
    IF r.self.saiu # None
    THEN [self |-> r.self, ret |-> None]
    ELSE acessar_retorno(r.self, Val(r.ret), offset)

\* Lines 80-88: r is the frame found for the page, or the exit of the process.
acessar_lru(r, pagina, offset) ==
    IF r.self.saiu # None
    THEN [self |-> r.self, ret |-> None]
    ELSE acessar_retorno(
             IF r.self.algoritmo = LRU
             THEN [r.self EXCEPT !.uso_recente = DictSet(@, pagina, r.self.clock)]
             ELSE r.self,
             Val(r.ret), offset)

\* Lines 64-65, after the counters are incremented.
acessar_busca(self, pagina, offset) ==
    acessar_lru(acessar_resolve(self, pagina, buscar_na_tlb(self, pagina)), pagina, offset)

\* Mutant of acessar: line 56 is missing, the clock does not advance.
acessar_sem_clock(self, endereco_virtual) ==
    acessar_busca([self EXCEPT !.acessos = @ + 1],
                  pagina_de(endereco_virtual), offset_de(endereco_virtual))

acessar(self, endereco_virtual) ==
    acessar_busca([self EXCEPT !.acessos = @ + 1, !.clock = @ + 1],
                  pagina_de(endereco_virtual), offset_de(endereco_virtual))

(***************************************************************************)
(* State.                                                                  *)
(*   memoria     the MemoryManager object                                  *)
(*   chamada     the last acessar call: None, or <<[va, ret]>> with the    *)
(*               argument and the returned (endereco_fisico, conteudo)     *)
(*   carregada   for each page, the number of the acessar call that last   *)
(*               faulted it in   (observer, not read by the program)       *)
(*   tocada      for each page, the number of the acessar call that last   *)
(*               accessed it     (observer, not read by the program)       *)
(*   inserida    for each page, the number of the acessar call that last   *)
(*               ran atualiza_tlb for it (observer, not read by the        *)
(*               program)                                                  *)
(*   pc          where the process is: "objeto" (a MemoryManager used      *)
(*               directly, without main), or in main: "inicio" (start-up), *)
(*               "loop" (reading the address file), "fim" (returned),      *)
(*               "saiu" (sys.exit(1))                                      *)
(*   argv        sys.argv                                                  *)
(*   arquivos    the files present: the length of BACKING_STORE.bin (None  *)
(*               when it cannot be opened) and whether the address file    *)
(*               exists                                                    *)
(*   lidas       the number of lines of the address file read so far       *)
(*   linha       None, or <<l>> with the line main has read last           *)
(*   saida       the content of correct.txt, one record per write          *)
(*   erro        None, or <<m>> with the message printed before            *)
(*               sys.exit(1)                                               *)
(*   passo       None, or <<l>> while a call of acessar is executed one    *)
(*               group of statements at a time: l holds the position in    *)
(*               the method and its local variables                        *)
(*   v1          None, or the module-level variables of simulador_v1.py    *)
(*               (TLB, page_table, physical_memory, free_frames, tlb_hits, *)
(*               page_faults, page_replacement_algorithm) as one record    *)
(***************************************************************************)
VARIABLES memoria, chamada, carregada, tocada, inserida, pc, argv, arquivos, lidas, linha,
          saida, erro, passo, v1

vars ==
    <<memoria, chamada, carregada, tocada, inserida, pc, argv, arquivos, lidas, linha, saida,
      erro, passo, v1>>

varsMain == <<pc, argv, arquivos, lidas, linha, saida, erro, passo, v1>>

\* Virtual addresses given to acessar by Spec: pages 0, 1, 18 and 255, several
\* offsets of one page, and integers outside 0..65535 (negative, >= 65536).
Enderecos == {200, 256 + 255, 4660, 65536 + 200, 0 - 1, 4660 - 65536}

\* Virtual addresses given to acessar by SpecEx: one address in each of five pages.
\* SpecEx runs on 4 frames (the frame count of the examples of FIFO and LRU victim
\* selection) and on 2 frames (where most calls evict).
EnderecosEx == {200, 256 + 255, 512, 4660, 65535}

\* Virtual addresses given to acessar by SpecDecomp: the integers within MaxDesvio
\* of -65536, 0, 4660 (0x1234), 32768, 65536 and 131072.
EnderecosDecomp ==
    UNION {(c - MaxDesvio)..(c + MaxDesvio) : c \in {0 - 65536, 0, 4660, 32768, 65536, 131072}}

\* Command lines given to main by SpecMain: frame counts and policy names, valid
\* and invalid, and one command line that lacks an argument.
ArgsQuadros ==
    {<<"1", "2", "8">>, <<"2", "5", "6">>, <<"4">>, <<"0">>, <<"-", "4">>, <<"x">>}
ArgsAlgoritmo ==
    {<<"F", "I", "F", "O">>, <<"f", "i", "f", "o">>, <<"L", "R", "U">>, <<"L", "r", "u">>,
     <<"C", "L", "O", "C", "K">>, <<>>}
ArgvMain ==
    {<<"simulador.py", "address.txt", q, a>> : q \in ArgsQuadros, a \in ArgsAlgoritmo}
        \cup {<<"simulador.py", "address.txt", <<"1", "2", "8">>>>}

\* Lines of the address file read by SpecMain: blank lines, directives in several
\* letter cases, addresses and lines that are no integer.
Linhas ==
    {<<"\n">>,
     <<" ", "\n">>,
     <<"P", "a", "g", "e", "T", "a", "b", "l", "e", "\n">>,
     <<"t", "l", "b", "\n">>,
     <<"4", "6", "6", "0", "\n">>,
     <<" ", "2", "0", "0", " ", "\n">>,
     <<"-", "1", "\n">>,
     <<"a", "b", "c", "\n">>,
     <<"1", " ", "2", "\n">>}

AlgoritmosValidos == {<<"F", "I", "F", "O">>, <<"l", "r", "u">>}

Full == 65536

\* A MemoryManager constructed and used directly: main does not run.
SemMain ==
    /\ pc = "objeto"
    /\ argv = <<>>
    /\ arquivos = [store |-> Some(Full), enderecos |-> FALSE]
    /\ lidas = 0
    /\ linha = None
    /\ passo = None
    /\ v1 = None
    /\ saida = <<>>
    /\ erro = None

Init ==
    /\ \E n \in 1..MaxQuadros, alg \in AlgoritmosValidos :
           memoria = MemoryManager(n, alg, Full)
    /\ chamada = None
    /\ carregada = <<>>
    /\ tocada = <<>>
    /\ inserida = <<>>
    /\ SemMain

InitEx ==
    /\ \E n \in {2, 4}, alg \in AlgoritmosValidos :
           memoria = MemoryManager(n, alg, Full)
    /\ chamada = None
    /\ carregada = <<>>
    /\ tocada = <<>>
    /\ inserida = <<>>
    /\ SemMain

Marca(f, pagina, n) == [p \in (DOMAIN f) \cup {pagina} |-> IF p = pagina THEN n ELSE f[p]]

\* The call memoria.acessar(va) with outcome r, as seen by the observers.
Observa(va, r) ==
    /\ memoria' = r.self
    /\ chamada' = Some([va |-> va, ret |-> r.ret])
    /\ tocada' = Marca(tocada, pagina_de(va), r.self.acessos)
    /\ inserida' = IF r.self.saiu = None /\ r.self.tlb_hits = memoria.tlb_hits
                   THEN Marca(inserida, pagina_de(va), r.self.acessos)
                   ELSE inserida
    /\ carregada' = IF r.self.page_faults > memoria.page_faults
                    THEN Marca(carregada, pagina_de(va), r.self.acessos)
                    ELSE carregada

\* One call memoria.acessar(va) on an object used directly.
Chamar(va) ==
    /\ pc = "objeto"
    /\ memoria.saiu = None
    /\ \E r \in {acessar(memoria, va)} : Observa(va, r)
    /\ UNCHANGED varsMain

Acessar == \E va \in Enderecos : memoria.acessos < MaxAcessos /\ Chamar(va)

AcessarEx == \E va \in EnderecosEx : memoria.acessos < MaxAcessosEx /\ Chamar(va)

\* The first call on a fresh object, with its address drawn from EnderecosDecomp.
AcessarDecomp == \E va \in EnderecosDecomp : chamada = None /\ Chamar(va)

(***************************************************************************)
(* main.                                                                   *)
(***************************************************************************)
USO == "Uso: python simulador.py address.txt [Quadros] [Alg Subst Pagina]"
ERRO_QUADROS_INTEIRO == "[Quadros] deve ser um inteiro."
ERRO_QUADROS_SUPORTADOS == "Apenas 128 ou 256 quadros sao suportados."
ERRO_ALG_SUBST == "[Alg Subst Pagina] deve ser FIFO ou LRU."
ERRO_ABRIR_STORE == "Erro ao abrir BACKING_STORE.bin"
ERRO_ARQUIVO == "Arquivo nao encontrado."

\* Line 247: the frame counts main accepts.
QuadrosSuportados(num_quadros) == ~(num_quadros # 128 /\ num_quadros # 256)

\* Mutant of AlgoritmoSuportado: the test of lines 255-257 is missing.
AlgoritmoSuportado_sem_teste(algoritmo_substituicao) == TRUE

\* Line 255: the policy names main accepts, after upper().
AlgoritmoSuportado(algoritmo_substituicao) == algoritmo_substituicao \in {FIFO, LRU}

RECURSIVE Ordenada(_)
\* sorted(keys)
Ordenada(S) ==
    IF S = {} THEN <<>>
    ELSE LET m == CHOOSE x \in S : \A y \in S : x <= y
         IN  <<m>> \o Ordenada(S \ {m})

\* The lines imprime_page_table writes after its header: page, frame, validity bit.
imprime_page_table(self) ==
    [tipo |-> "PageTable",
     linhas |-> [i \in 1..Cardinality(DOMAIN self.page_table) |->
                    <<Ordenada(DOMAIN self.page_table)[i],
                      self.page_table[Ordenada(DOMAIN self.page_table)[i]].quadro,
                      IF self.page_table[Ordenada(DOMAIN self.page_table)[i]].valido
                      THEN 1 ELSE 0>>]]

\* The lines imprime_tlb writes after its header: page, frame.
imprime_tlb(self) ==
    [tipo |-> "TLB",
     linhas |-> [i \in 1..Len(self.tlb) |-> <<self.tlb[i].pagina, self.tlb[i].quadro>>]]

Sair(mensagem) ==
    /\ pc' = "saiu"
    /\ erro' = Some(mensagem)

\* Lines 240-266: the arguments are checked, the MemoryManager is constructed,
\* correct.txt is emptied and the address file is opened.
main_inicio ==
    /\ pc = "inicio"
    /\ UNCHANGED <<argv, arquivos, lidas, linha, chamada, carregada, tocada, inserida, passo,
                   v1>>
    /\ saida' = <<>>
    /\ IF Len(argv) # 4
       THEN Sair(USO) /\ UNCHANGED memoria
       ELSE IF int(argv[3]) = None
       THEN Sair(ERRO_QUADROS_INTEIRO) /\ UNCHANGED memoria
       ELSE IF ~QuadrosSuportados(Val(int(argv[3])))
       THEN Sair(ERRO_QUADROS_SUPORTADOS) /\ UNCHANGED memoria
       ELSE IF ~AlgoritmoSuportado(upper(argv[4]))
       THEN Sair(ERRO_ALG_SUBST) /\ UNCHANGED memoria
       ELSE IF arquivos.store = None
       THEN Sair(ERRO_ABRIR_STORE) /\ UNCHANGED memoria
       ELSE /\ memoria' = MemoryManager(Val(int(argv[3])), upper(argv[4]),
                                        Val(arquivos.store))
            /\ IF arquivos.enderecos
               THEN pc' = "loop" /\ UNCHANGED erro
               ELSE Sair(ERRO_ARQUIVO)

\* Lines 281-283: the address of the line is translated and the result written.
main_linha_acessar(endereco_virtual) ==
    \E r \in {acessar(memoria, endereco_virtual)} :
        /\ Observa(endereco_virtual, r)
        /\ IF r.self.saiu # None
           THEN /\ pc' = "saiu"
                /\ erro' = r.self.saiu
                /\ UNCHANGED saida
           ELSE /\ saida' = Append(saida, [tipo |-> "Endereco",
                                           virtual |-> endereco_virtual,
                                           fisico |-> Val(r.ret)[1],
                                           conteudo |-> Val(r.ret)[2]])
                /\ UNCHANGED <<pc, erro>>

\* Lines 267-285: one line of the address file.
main_linha ==
    /\ pc = "loop"
    /\ lidas < MaxLinhas
    /\ lidas' = lidas + 1
    /\ UNCHANGED <<argv, arquivos, passo, v1>>
    /\ \E line \in Linhas :
         /\ linha' = Some(line)
         /\ IF strip(line) = <<>>
             THEN UNCHANGED <<memoria, chamada, carregada, tocada, inserida, pc, saida, erro>>
             ELSE IF upper(strip(line)) = PAGETABLE
             THEN /\ saida' = Append(saida, imprime_page_table(memoria))
                  /\ UNCHANGED <<memoria, chamada, carregada, tocada, inserida, pc, erro>>
             ELSE IF upper(strip(line)) = TLB
             THEN /\ saida' = Append(saida, imprime_tlb(memoria))
                  /\ UNCHANGED <<memoria, chamada, carregada, tocada, inserida, pc, erro>>
             ELSE IF int(strip(line)) = None
             THEN UNCHANGED <<memoria, chamada, carregada, tocada, inserida, pc, saida, erro>>
             ELSE main_linha_acessar(Val(int(strip(line))))

\* Lines 290-292: the address file is exhausted; the statistics are printed and
\* the backing store is closed.
main_fim ==
    /\ pc = "loop"
    /\ pc' = "fim"
    /\ UNCHANGED <<memoria, chamada, carregada, tocada, inserida, argv, arquivos, lidas, linha,
                   saida, erro, passo, v1>>

InitMain ==
    /\ pc = "inicio"
    /\ argv \in ArgvMain
    /\ arquivos \in [store : {None, Some(Full)}, enderecos : BOOLEAN]
    /\ memoria = None
    /\ chamada = None
    /\ carregada = <<>>
    /\ tocada = <<>>
    /\ inserida = <<>>
    /\ lidas = 0
    /\ linha = None
    /\ passo = None
    /\ v1 = None
    /\ saida = <<>>
    /\ erro = None

NextMain == main_inicio \/ main_linha \/ main_fim

SpecMain == InitMain /\ [][NextMain]_vars

\* The length of a BACKING_STORE.bin cut short inside page 18: pages 0..17 are whole,
\* page 18 has 52 bytes, the pages after it have none.
Truncado == 18 * page_size + 52

\* Virtual addresses given to acessar by SpecCurto: pages 0 and 1 (whole), page 18
\* (an address inside and one beyond the bytes present) and page 255 (absent).
EnderecosCurto == {200, 256 + 255, 18 * 256 + 5, 4660, 0 - 1}

\* Command lines given to main by SpecCurto: the ones main accepts.
ArgvCurto ==
    {<<"simulador.py", "address.txt", q, a>> :
        q \in {<<"1", "2", "8">>, <<"2", "5", "6">>},
        a \in {<<"F", "I", "F", "O">>, <<"L", "r", "u">>}}

\* The store is cut short; the program is either main, or a MemoryManager used
\* directly on a few frames.
InitCurto ==
    /\ arquivos = [store |-> Some(Truncado), enderecos |-> TRUE]
    /\ chamada = None
    /\ carregada = <<>>
    /\ tocada = <<>>
    /\ inserida = <<>>
    /\ lidas = 0
    /\ linha = None
    /\ passo = None
    /\ v1 = None
    /\ saida = <<>>
    /\ erro = None
    /\ \/ /\ pc = "inicio"
          /\ argv \in ArgvCurto
          /\ memoria = None
       \/ /\ pc = "objeto"
          /\ argv = <<>>
          /\ \E n \in 1..MaxQuadros, alg \in AlgoritmosValidos :
                 memoria = MemoryManager(n, alg, Truncado)

AcessarCurto ==
    /\ pc = "objeto"
    /\ \E va \in EnderecosCurto : memoria.acessos < MaxAcessos /\ Chamar(va)

NextCurto == main_inicio \/ main_linha \/ main_fim \/ AcessarCurto

SpecCurto == InitCurto /\ [][NextCurto]_vars

(***************************************************************************)
(* acessar executed one group of statements at a time: the states between  *)
(* the updates of one call are states of the specification.                *)
(***************************************************************************)
\* Virtual addresses given to acessar by SpecPassos: one address in each of four
\* pages.
EnderecosPassos == {200, 256 + 255, 4660, 0 - 1}

\* The local variables of a call in progress: em is the position, quadro and
\* vitima are <<x>> once assigned, esperado is what the whole call yields when
\* run from the state in which it started.
Local(em, va, quadro, vitima, esperado) ==
    Some([em |-> em, va |-> va, quadro |-> quadro, vitima |-> vitima,
          esperado |-> esperado])

NoPasso(em) == pc = "objeto" /\ passo # None /\ Val(passo).em = em

SoMemoriaEPasso ==
    UNCHANGED <<chamada, carregada, tocada, inserida, pc, argv, arquivos, lidas, linha,
                saida, erro, v1>>

\* Lines 55-71 and 75: the counters, the lookups in the TLB and in the page table,
\* the count of a TLB hit or of a page fault.
passo_busca(va, self, na_tlb) ==
    IF na_tlb # None
    THEN /\ memoria' = [self EXCEPT !.tlb_hits = @ + 1]
         /\ passo' = Local("retorno", va, na_tlb, None, acessar(memoria, va))
    ELSE IF pagina_de(va) \in DOMAIN self.page_table /\ self.page_table[pagina_de(va)].valido
    THEN /\ memoria' = self
         /\ passo' = Local("atualiza_tlb", va, Some(self.page_table[pagina_de(va)].quadro),
                           None, acessar(memoria, va))
    ELSE /\ memoria' = [self EXCEPT !.page_faults = @ + 1]
         /\ passo' = Local("tratar_page_fault", va, None, None, acessar(memoria, va))

passo_inicio ==
    /\ pc = "objeto"
    /\ passo = None
    /\ memoria.saiu = None
    /\ memoria.acessos < MaxAcessos
    /\ \E va \in EnderecosPassos :
           \E self \in {[memoria EXCEPT !.acessos = @ + 1, !.clock = @ + 1]} :
               passo_busca(va, self, buscar_na_tlb(self, pagina_de(va)))
    /\ SoMemoriaEPasso

\* Lines 121-130 (a free frame: the page is loaded into it), or the choice of the
\* victim and the invalidation of its entry (lines 152-154, 177-179).
passo_tratar_page_fault ==
    /\ NoPasso("tratar_page_fault")
    /\ IF \E i \in 1..Len(memoria.quadros) : memoria.quadros[i] = None
       THEN \E f \in {tratar_page_fault_livre(
                          carrega_pagina(memoria, pagina_de(Val(passo).va)),
                          IndexNone(memoria.quadros), pagina_de(Val(passo).va))} :
                /\ memoria' = f.self
                /\ passo' = Some([Val(passo) EXCEPT !.em = "ativa", !.quadro = f.ret])
       ELSE \E v \in {IF memoria.algoritmo = FIFO
                      THEN Head(memoria.fifo_queue)
                      ELSE DictMinKey(memoria.uso_recente)} :
                /\ memoria' = [memoria EXCEPT
                                  !.fifo_queue = IF memoria.algoritmo = FIFO THEN Tail(@) ELSE @,
                                  !.page_table[v].valido = FALSE]
                /\ passo' = Some([Val(passo) EXCEPT
                                     !.em = "remover_da_tlb",
                                     !.quadro = Some(memoria.page_table[v].quadro),
                                     !.vitima = Some(v)])
    /\ SoMemoriaEPasso

\* Line 155, or lines 180-181: the victim leaves the TLB (and uso_recente).
passo_remover_da_tlb ==
    /\ NoPasso("remover_da_tlb")
    /\ memoria' = IF memoria.algoritmo = FIFO
                  THEN remover_da_tlb(memoria, Val(Val(passo).vitima))
                  ELSE [remover_da_tlb(memoria, Val(Val(passo).vitima))
                           EXCEPT !.uso_recente = DictDel(@, Val(Val(passo).vitima))]
    /\ passo' = Some([Val(passo) EXCEPT !.em = "carrega_pagina"])
    /\ SoMemoriaEPasso

\* Lines 157-162, or 183-188: the new page is loaded into the victim's frame.
passo_carrega_pagina ==
    /\ NoPasso("carrega_pagina")
    /\ \E f \in {IF memoria.algoritmo = FIFO
                 THEN substituicao_fifo_instala(
                          carrega_pagina(memoria, pagina_de(Val(passo).va)),
                          Val(Val(passo).quadro), pagina_de(Val(passo).va))
                 ELSE substituicao_lru_instala(
                          carrega_pagina(memoria, pagina_de(Val(passo).va)),
                          Val(Val(passo).quadro), pagina_de(Val(passo).va))} :
           memoria' = f.self
    /\ passo' = Some([Val(passo) EXCEPT !.em = "ativa"])
    /\ SoMemoriaEPasso

\* Line 77: the entry of the faulting page becomes valid.
passo_ativa ==
    /\ NoPasso("ativa")
    /\ memoria' = [memoria EXCEPT !.page_table =
                      PageTableSet(@, pagina_de(Val(passo).va),
                                   [quadro |-> Val(Val(passo).quadro), valido |-> TRUE])]
    /\ passo' = Some([Val(passo) EXCEPT !.em = "atualiza_tlb"])
    /\ SoMemoriaEPasso

\* Line 72 or 78: the page enters the TLB.
passo_atualiza_tlb ==
    /\ NoPasso("atualiza_tlb")
    /\ memoria' = atualiza_tlb(memoria, pagina_de(Val(passo).va), Val(Val(passo).quadro))
    /\ passo' = Some([Val(passo) EXCEPT !.em = "retorno"])
    /\ SoMemoriaEPasso

\* Lines 80-88: the timestamp of the page, the physical address, the byte read.
passo_retorno ==
    /\ NoPasso("retorno")
    /\ \E r \in {acessar_lru([self |-> memoria, ret |-> Val(passo).quadro],
                             pagina_de(Val(passo).va), offset_de(Val(passo).va))} :
           /\ memoria' = r.self
           /\ chamada' = Some([va |-> Val(passo).va, ret |-> r.ret])
    /\ passo' = None
    /\ UNCHANGED <<carregada, tocada, inserida, pc, argv, arquivos, lidas, linha, saida,
                   erro, v1>>

NextPassos ==
    \/ passo_inicio
    \/ passo_tratar_page_fault
    \/ passo_remover_da_tlb
    \/ passo_carrega_pagina
    \/ passo_ativa
    \/ passo_atualiza_tlb
    \/ passo_retorno

SpecPassos == Init /\ [][NextPassos]_vars

(***************************************************************************)
(* simulador_v1.py: the module-level variables are the fields of one       *)
(* record g; translate_address yields [g |-> .., ret |-> ..].  g.excecao   *)
(* is <<e>> once an exception was raised.                                  *)
(***************************************************************************)
PAGE_SIZE == 256
NUM_PAGES == 256
TLB_SIZE == 16

\* Lines 9-20, with page_replacement_algorithm as main sets it (line 120).
modulo_v1(algoritmo) ==
    [ TLB                        |-> <<>>,
      page_table                 |-> <<>>,
      physical_memory            |-> [f \in 0..(NUM_PAGES - 1) |-> None],
      free_frames                |-> [i \in 1..256 |-> i - 1],
      tlb_hits                   |-> 0,
      page_faults                |-> 0,
      page_replacement_algorithm |-> upper(algoritmo),
      excecao                    |-> None ]

\* physical_memory is a bytearray of zeros until a frame is written: None stands for
\* the 256 zero bytes of a frame never written.
initialize(g, num_frames) ==
    [g EXCEPT !.TLB = <<>>,
              !.page_table = [i \in 0..(NUM_PAGES - 1) |-> None],
              !.physical_memory = [f \in 0..(NUM_PAGES - 1) |-> None],
              !.free_frames = [i \in 1..num_frames |-> i - 1]]

\* page_number in TLB
NaTLBv1(g, page_number) == \E i \in 1..Len(g.TLB) : g.TLB[i].pagina = page_number

\* TLB[page_number]
QuadroTLBv1(g, page_number) ==
    g.TLB[CHOOSE i \in 1..Len(g.TLB) : g.TLB[i].pagina = page_number].quadro

\* Lines 49-50, 65-66: the first page, in the order of the keys of page_table
\* (0, 1, .., 255), whose frame is not None.
PrimeiraEmUso(page_table) ==
    CHOOSE p \in DOMAIN page_table :
        /\ page_table[p] # None
        /\ \A q \in DOMAIN page_table : q < p => page_table[q] = None

\* Lines 49-55 and 65-69: replaced_page loses its frame (and, under FIFO, its TLB
\* entry).
translate_substitui_tabela(g, replaced_page, da_tlb) ==
    [g |-> [g EXCEPT !.page_table[replaced_page] = None,
                     !.TLB = IF da_tlb
                             THEN SelectSeq(@, LAMBDA e : e.pagina # replaced_page)
                             ELSE @],
     frame_number |-> g.page_table[replaced_page]]

\* Lines 45-74: the frame for the faulting page.
translate_quadro(g) ==
    IF g.free_frames # <<>>
    THEN [g |-> [g EXCEPT !.free_frames = Tail(@)], frame_number |-> Some(Head(g.free_frames))]
    ELSE IF g.page_replacement_algorithm = FIFO
    THEN IF \E p \in DOMAIN g.page_table : g.page_table[p] # None
         THEN translate_substitui_tabela(g, PrimeiraEmUso(g.page_table), TRUE)
         ELSE [g |-> g, frame_number |-> None]
    ELSE IF g.page_replacement_algorithm = LRU
    THEN IF g.TLB # <<>>
         THEN [g |-> [g EXCEPT !.page_table[g.TLB[1].pagina] = None, !.TLB = Tail(@)],
               frame_number |-> Some(g.TLB[1].quadro)]
         ELSE IF \E p \in DOMAIN g.page_table : g.page_table[p] # None
         THEN translate_substitui_tabela(g, PrimeiraEmUso(g.page_table), FALSE)
         ELSE [g |-> g, frame_number |-> None]
    ELSE [g |-> [g EXCEPT !.excecao = Some("RuntimeError")], frame_number |-> None]

\* Lines 76-83: q is the outcome of translate_quadro; the page is read from the
\* backing store into the frame.  frame_number is unbound when no page was in use.
translate_carrega(q, page_number, tam) ==
    IF q.g.excecao # None
    THEN q
    ELSE IF Len(FileRead(tam, page_number * PAGE_SIZE, PAGE_SIZE)) # PAGE_SIZE
    THEN [g |-> [q.g EXCEPT !.excecao = Some("RuntimeError")], frame_number |-> None]
    ELSE IF q.frame_number = None
    THEN [g |-> [q.g EXCEPT !.excecao = Some("UnboundLocalError")], frame_number |-> None]
    ELSE [g |-> [q.g EXCEPT
                    !.physical_memory[Val(q.frame_number)] =
                        FileRead(tam, page_number * PAGE_SIZE, PAGE_SIZE),
                    !.page_table[page_number] = q.frame_number],
          frame_number |-> q.frame_number]

\* Lines 85-91: q carries the frame found or loaded after a TLB miss.
translate_atualiza_tlb(q, page_number) ==
    IF q.g.excecao # None
    THEN q
    ELSE IF NaTLBv1(q.g, page_number)
    THEN [g |-> [q.g EXCEPT !.TLB =
                    Append(SelectSeq(@, LAMBDA e : e.pagina # page_number),
                           [pagina |-> page_number, quadro |-> QuadroTLBv1(q.g, page_number)])],
          frame_number |-> q.frame_number]
    ELSE [g |-> [q.g EXCEPT !.TLB =
                    Append(IF Len(@) >= TLB_SIZE THEN Tail(@) ELSE @,
                           [pagina |-> page_number, quadro |-> Val(q.frame_number)])],
          frame_number |-> q.frame_number]

\* Lines 35-83: the frame of the page, from the TLB, the page table or a page fault.
translate_resolve(g, page_number, tam) ==
    IF NaTLBv1(g, page_number)
    THEN [g |-> [g EXCEPT !.tlb_hits = @ + 1],
          frame_number |-> Some(QuadroTLBv1(g, page_number))]
    ELSE IF g.page_table[page_number] # None
    THEN translate_atualiza_tlb([g |-> g, frame_number |-> g.page_table[page_number]],
                                page_number)
    ELSE translate_atualiza_tlb(
             translate_carrega(translate_quadro([g EXCEPT !.page_faults = @ + 1]),
                               page_number, tam),
             page_number)

\* Lines 93-97: an unwritten frame reads as zero bytes.
translate_retorno(q, offset) ==
    IF q.g.excecao # None
    THEN [g |-> q.g, ret |-> None]
    ELSE [g |-> q.g,
          ret |-> Some(<<BitOr(ShiftLeft(Val(q.frame_number), 8), offset),
                         IF q.g.physical_memory[Val(q.frame_number)] = None
                         THEN 0
                         ELSE q.g.physical_memory[Val(q.frame_number)][offset + 1]>>)]

translate_address(g, logical_address, tam) ==
    translate_retorno(
        translate_resolve(g, BitAnd(ShiftRight(logical_address, 8), 255), tam),
        BitAnd(logical_address, 255))

\* The number of calls of translate_address made so far.
NumChamadas == IF chamada = None THEN 0 ELSE Val(chamada).n

\* The globals of simulador_v1.py after initialize(num_frames), on 2 and on 4
\* frames; the MemoryManager of simulador_v3.py does not exist.
InitV1 ==
    /\ \E n \in {2, 4}, alg \in AlgoritmosValidos : v1 = Some(initialize(modulo_v1(alg), n))
    /\ pc = "v1"
    /\ memoria = None
    /\ chamada = None
    /\ carregada = <<>>
    /\ tocada = <<>>
    /\ inserida = <<>>
    /\ argv = <<>>
    /\ arquivos = [store |-> Some(Full), enderecos |-> FALSE]
    /\ lidas = 0
    /\ linha = None
    /\ saida = <<>>
    /\ erro = None
    /\ passo = None

\* One call translate_address(la, backing_store), as seen by the observers.
Traduzir ==
    /\ pc = "v1"
    /\ Val(v1).excecao = None
    /\ NumChamadas < MaxAcessosEx
    /\ \E la \in EnderecosEx :
           \E r \in {translate_address(Val(v1), la, Full)} :
               /\ v1' = Some(r.g)
               /\ chamada' = Some([va |-> la, ret |-> r.ret, n |-> NumChamadas + 1])
               /\ tocada' = Marca(tocada, BitAnd(ShiftRight(la, 8), 255), NumChamadas + 1)
               /\ carregada' = IF r.g.page_faults > Val(v1).page_faults
                               THEN Marca(carregada, BitAnd(ShiftRight(la, 8), 255),
                                          NumChamadas + 1)
                               ELSE carregada
    /\ UNCHANGED <<memoria, inserida, pc, argv, arquivos, lidas, linha, saida, erro, passo>>

NextV1 == Traduzir

SpecV1 == InitV1 /\ [][NextV1]_vars

Next == Acessar

NextEx == AcessarEx

NextDecomp == AcessarDecomp

Spec == Init /\ [][Next]_vars

SpecDecomp == Init /\ [][NextDecomp]_vars

SpecEx == InitEx /\ [][NextEx]_vars

(***************************************************************************)
(* Vocabulary of the properties.                                           *)
(***************************************************************************)
Valida(p) == p \in DOMAIN memoria.page_table /\ memoria.page_table[p].valido
Residentes == {p \in DOMAIN memoria.page_table : memoria.page_table[p].valido}
NaTlb(p) == \E i \in 1..Len(memoria.tlb) : memoria.tlb[i].pagina = p
SemQuadroLivre == \A i \in 1..Len(memoria.quadros) : memoria.quadros[i] # None
Completa == chamada # None /\ Val(chamada).ret # None
UltimoVa == Val(chamada).va
EnderecoFisico == Val(Val(chamada).ret)[1]
Conteudo == Val(Val(chamada).ret)[2]
\* The bytes of the backing store in [p * 256, (p + 1) * 256).
BytesDaPagina(p) == [i \in 1..256 |-> StoreByte(p * 256 + i - 1)]
\* The signed 8-bit reading of a raw byte.
Signed8(raw) == IF raw > 127 THEN raw - 256 ELSE raw

(***************************************************************************)
(* C1.  Every acessar(va) returns, as its value, the signed 8-bit reading  *)
(* of the backing-store byte at byte offset va mod 65536, whatever was     *)
(* loaded or evicted before; a raw byte 200 is returned as -56.            *)
(***************************************************************************)
C1_ValorLido ==
    chamada # None =>
        /\ Val(chamada).ret # None
        /\ Conteudo = Signed8(StoreByte(UltimoVa % 65536))
        /\ (StoreByte(UltimoVa % 65536) = 200 => Conteudo = 0 - 56)

\* A call that returned -56 for the raw byte 200 after at least one eviction.
C1_Witness ==
    /\ Completa
    /\ StoreByte(UltimoVa % 65536) = 200
    /\ Conteudo = 0 - 56
    /\ memoria.page_faults > memoria.num_quadros

(***************************************************************************)
(* C2.  After every acessar call, the frame named by each valid page-table *)
(* entry holds exactly the 256 bytes of that page in the backing store.    *)
(***************************************************************************)
C2_QuadroIgualStore ==
    \A p \in Residentes :
        memoria.physical_memory[memoria.page_table[p].quadro + 1] = BytesDaPagina(p)

\* A frame that held an evicted page now holds another, valid page.
C2_Witness ==
    \E p \in DOMAIN memoria.page_table, q \in Residentes :
        /\ ~memoria.page_table[p].valido
        /\ memoria.page_table[p].quadro = memoria.page_table[q].quadro

(***************************************************************************)
(* C3.  After every acessar call, every TLB entry (page, frame) has a      *)
(* valid page-table entry for that page naming the same frame.             *)
(***************************************************************************)
C3_TlbSubconjunto ==
    \A i \in 1..Len(memoria.tlb) :
        /\ Valida(memoria.tlb[i].pagina)
        /\ memoria.page_table[memoria.tlb[i].pagina].quadro = memoria.tlb[i].quadro

\* The TLB holds entries while some page has been evicted and not reloaded.
C3_Witness ==
    /\ Len(memoria.tlb) > 0
    /\ \E p \in DOMAIN memoria.page_table : ~memoria.page_table[p].valido /\ ~NaTlb(p)

(***************************************************************************)
(* C4.  The number of TLB entries never exceeds the TLB capacity tlb_size. *)
(***************************************************************************)
C4_TlbLimitada == Len(memoria.tlb) <= tlb_size

\* The TLB is full and a resident page has lost its entry to the capacity eviction.
C4_Witness ==
    /\ Len(memoria.tlb) = tlb_size
    /\ \E p \in Residentes : ~NaTlb(p)

(***************************************************************************)
(* C5.  When acessar is called twice in a row with the same virtual        *)
(* address, the second call does not increment page_faults and returns the *)
(* same (physical address, value) pair as the first.                       *)
(***************************************************************************)
C5_Idempotente ==
    [][(chamada # None /\ Val(chamada').va = Val(chamada).va) =>
           /\ memoria'.page_faults = memoria.page_faults
           /\ Val(chamada').ret = Val(chamada).ret
           /\ Val(chamada').ret # None]_vars

\* Two calls in a row on one address whose first call was a page fault with eviction:
\* the second call was a TLB hit on the page touched last.
C5_Witness ==
    /\ Completa
    /\ memoria.page_faults > memoria.num_quadros
    /\ carregada[pagina_de(UltimoVa)] = memoria.acessos - 1
    /\ tocada[pagina_de(UltimoVa)] = memoria.acessos

ValidaEm(m, p) == p \in DOMAIN m.page_table /\ m.page_table[p].valido

(***************************************************************************)
(* C6.  Under FIFO, a page fault with no free frame evicts the resident    *)
(* page that was faulted in earliest, whatever hits it had since, and no   *)
(* other page; with 4 frames, touching 5 distinct pages p0..p4 in order    *)
(* evicts p0 on the 5th access and leaves p1..p4 resident.                 *)
(***************************************************************************)
C6_FifoPasso ==
    (/\ memoria.algoritmo = FIFO
     /\ SemQuadroLivre
     /\ memoria'.page_faults > memoria.page_faults)
    => \E v \in Residentes :
           /\ \A q \in Residentes : carregada[v] <= carregada[q]
           /\ ~ValidaEm(memoria', v)
           /\ \A q \in Residentes \ {v} : ValidaEm(memoria', q)

C6_FifoExemplo ==
    (/\ memoria.algoritmo = FIFO
     /\ memoria.num_quadros = 4
     /\ memoria.acessos = 5
     /\ memoria.page_faults = 5)
    => /\ Cardinality(DOMAIN carregada) = 5
       /\ \A p \in DOMAIN carregada :
              IF carregada[p] = 1 THEN ~Valida(p) ELSE Valida(p)

C6_FifoVitima == []C6_FifoExemplo /\ [][C6_FifoPasso]_vars

\* With 4 frames under FIFO, a page that was hit after it was loaded has been evicted
\* while a page loaded after it, and not touched since, is still resident.
C6_Witness ==
    /\ memoria.algoritmo = FIFO
    /\ memoria.num_quadros = 4
    /\ \E p \in DOMAIN memoria.page_table, q \in Residentes :
           /\ ~memoria.page_table[p].valido
           /\ tocada[p] > carregada[p]
           /\ carregada[q] = tocada[q]
           /\ tocada[q] < tocada[p]

(***************************************************************************)
(* C7.  Under LRU, a page fault with no free frame evicts the resident     *)
(* page whose most recent access (fault or hit) is the oldest, and no      *)
(* other page; with 4 frames, after loading p0..p3 and re-accessing p0,    *)
(* the fault on p4 evicts p1 and not p0.                                   *)
(***************************************************************************)
C7_LruPasso ==
    (/\ memoria.algoritmo = LRU
     /\ SemQuadroLivre
     /\ memoria'.page_faults > memoria.page_faults)
    => \E v \in Residentes :
           /\ \A q \in Residentes : tocada[v] <= tocada[q]
           /\ ~ValidaEm(memoria', v)
           /\ \A q \in Residentes \ {v} : ValidaEm(memoria', q)

\* The trace p0 p1 p2 p3 p0 p4: p0 was loaded by call 1 and last touched by call 5,
\* p1 was loaded by call 2, and 5 of the 6 calls were page faults.
C7_TracoExemplo(p0, p1) ==
    /\ memoria.algoritmo = LRU
    /\ memoria.num_quadros = 4
    /\ memoria.acessos = 6
    /\ memoria.page_faults = 5
    /\ p0 \in DOMAIN carregada /\ carregada[p0] = 1 /\ tocada[p0] = 5
    /\ p1 \in DOMAIN carregada /\ carregada[p1] = 2

C7_LruExemplo ==
    \A p0, p1 \in DOMAIN carregada :
        C7_TracoExemplo(p0, p1) =>
            /\ Valida(p0)
            /\ ~Valida(p1)
            /\ \A q \in DOMAIN carregada \ {p1} : Valida(q)

C7_LruVitima == []C7_LruExemplo /\ [][C7_LruPasso]_vars

\* The state after p0 p1 p2 p3 p0 p4 with 4 frames under LRU: p1 evicted, p0 resident.
C7_Witness ==
    \E p0, p1 \in DOMAIN carregada :
        C7_TracoExemplo(p0, p1) /\ Valida(p0) /\ ~Valida(p1)

(***************************************************************************)
(* C8.  For every integer va given to acessar, the page used is            *)
(* (va mod 65536) div 256, in 0..255, and the offset used is va mod 256,   *)
(* in 0..255: that page is the one made valid and entered in the TLB, and  *)
(* the physical address is its frame * 256 + that offset; 0x1234 gives     *)
(* page 18 and offset 52.                                                  *)
(***************************************************************************)
C8_Decomposicao ==
    chamada # None =>
        /\ Val(chamada).ret # None
        /\ pagina_de(UltimoVa) = (UltimoVa % 65536) \div 256
        /\ pagina_de(UltimoVa) \in 0..255
        /\ offset_de(UltimoVa) = UltimoVa % 256
        /\ offset_de(UltimoVa) \in 0..255
        /\ DOMAIN memoria.page_table = {(UltimoVa % 65536) \div 256}
        /\ NaTlb((UltimoVa % 65536) \div 256)
        /\ EnderecoFisico =
               memoria.page_table[(UltimoVa % 65536) \div 256].quadro * 256 + (UltimoVa % 256)
        /\ (UltimoVa = 4660 =>
                /\ DOMAIN memoria.page_table = {18}
                /\ EnderecoFisico = 52
                /\ pagina_de(UltimoVa) = 18
                /\ offset_de(UltimoVa) = 52)

\* A negative address was translated: its page is 255 after masking.
C8_Witness ==
    /\ Completa
    /\ UltimoVa < 0
    /\ DOMAIN memoria.page_table = {255}
    /\ EnderecoFisico = 255 - (0 - UltimoVa - 1)

(***************************************************************************)
(* C9.  Each acessar call increments acessos by 1 and is resolved in       *)
(* exactly one way: a TLB hit (tlb_hits + 1, page_faults unchanged), a     *)
(* page-table hit (neither counter changes) or a page fault                *)
(* (page_faults + 1, tlb_hits unchanged); tlb_hits + page_faults never     *)
(* exceeds acessos and no counter decreases.                               *)
(***************************************************************************)
C9_Passo ==
    /\ memoria'.acessos = memoria.acessos + 1
    /\ \/ /\ NaTlb(pagina_de(Val(chamada').va))
          /\ memoria'.tlb_hits = memoria.tlb_hits + 1
          /\ memoria'.page_faults = memoria.page_faults
       \/ /\ ~NaTlb(pagina_de(Val(chamada').va))
          /\ Valida(pagina_de(Val(chamada').va))
          /\ memoria'.tlb_hits = memoria.tlb_hits
          /\ memoria'.page_faults = memoria.page_faults
       \/ /\ ~NaTlb(pagina_de(Val(chamada').va))
          /\ ~Valida(pagina_de(Val(chamada').va))
          /\ memoria'.tlb_hits = memoria.tlb_hits
          /\ memoria'.page_faults = memoria.page_faults + 1

C9_Soma ==
    /\ memoria.tlb_hits >= 0
    /\ memoria.page_faults >= 0
    /\ memoria.tlb_hits + memoria.page_faults <= memoria.acessos

C9_Contadores == []C9_Soma /\ [][C9_Passo]_vars

\* All three ways have occurred: TLB hits, page faults and a page-table hit.
C9_Witness ==
    /\ memoria.tlb_hits > 0
    /\ memoria.page_faults > 0
    /\ memoria.acessos > memoria.tlb_hits + memoria.page_faults

(***************************************************************************)
(* C10.  In a run started through main, a policy name that is neither FIFO *)
(* nor LRU (main compares the name after upper(), so in any letter case)   *)
(* is rejected before any translation: no MemoryManager is constructed and *)
(* no acessar call is made for it; every acessar call runs under FIFO or   *)
(* LRU, and the 'invalid algorithm' exit of tratar_page_fault is never     *)
(* taken.                                                                  *)
(***************************************************************************)
C10_NomeDesconhecido == Len(argv) = 4 /\ upper(argv[4]) \notin {FIFO, LRU}

C10_PoliticaRejeitada ==
    /\ C10_NomeDesconhecido =>
           /\ pc \in {"inicio", "saiu"}
           /\ memoria = None
           /\ chamada = None
           /\ saida = <<>>
    /\ (memoria # None /\ memoria.acessos > 0) => memoria.algoritmo \in {FIFO, LRU}
    /\ pc = "loop" => memoria.algoritmo \in {FIFO, LRU}
    /\ erro # Some(ERRO_ALGORITMO)
    /\ (memoria # None => memoria.saiu # Some(ERRO_ALGORITMO))

\* A command line with a supported frame count and an unknown policy name has been
\* refused with the message of line 256.
C10_Witness ==
    /\ C10_NomeDesconhecido
    /\ int(argv[3]) = Some(128)
    /\ argv[4] # <<>>
    /\ pc = "saiu"
    /\ erro = Some(ERRO_ALG_SUBST)

\* A lower-case policy name is accepted and translations run under that policy.
C10_WitnessAceita ==
    /\ Len(argv) = 4
    /\ argv[4] = <<"f", "i", "f", "o">>
    /\ pc = "loop"
    /\ memoria.algoritmo = FIFO
    /\ memoria.acessos > 1
    /\ memoria.tlb_hits > 0

(***************************************************************************)
(* C11.  A command line whose frame count is a positive integer (4, for    *)
(* instance) is accepted by main and the run goes on to translate          *)
(* addresses; one whose frame count is zero or negative is refused before  *)
(* any translation.  The other arguments and the files are in order.       *)
(***************************************************************************)
C11_RestoValido ==
    /\ Len(argv) = 4
    /\ int(argv[3]) # None
    /\ upper(argv[4]) \in {FIFO, LRU}
    /\ arquivos.store # None
    /\ arquivos.enderecos

C11_QuadrosPositivos ==
    (pc # "inicio" /\ C11_RestoValido) =>
        IF Val(int(argv[3])) > 0
        THEN /\ memoria # None
             /\ erro \notin {Some(ERRO_QUADROS_INTEIRO), Some(ERRO_QUADROS_SUPORTADOS)}
        ELSE /\ pc = "saiu"
             /\ memoria = None
             /\ chamada = None

(***************************************************************************)
(* C12.  When carrega_pagina reads fewer than 256 bytes during a page      *)
(* fault the run aborts: that acessar call returns no result, no frame is  *)
(* written with the short data, the faulting page is not marked valid and  *)
(* not inserted into the TLB, and nothing is translated afterwards.        *)
(***************************************************************************)
C12_Abortou == memoria # None /\ memoria.saiu = Some(ERRO_LEITURA)

\* The translations written to correct.txt.
C12_Traduzidas == SelectSeq(saida, LAMBDA r : r.tipo = "Endereco")

C12_Estado ==
    /\ memoria # None =>
           \A i \in 1..Len(memoria.physical_memory) :
               \/ memoria.physical_memory[i] = None
               \/ /\ Len(memoria.physical_memory[i]) = page_size
                  /\ memoria.quadros[i] # None
                  /\ memoria.physical_memory[i] = BytesDaPagina(Val(memoria.quadros[i]))
    /\ C12_Abortou =>
           /\ chamada # None
           /\ Val(chamada).ret = None
           /\ Len(FileRead(memoria.store_tam, pagina_de(UltimoVa) * page_size, page_size))
                  < page_size
           /\ ~Valida(pagina_de(UltimoVa))
           /\ ~NaTlb(pagina_de(UltimoVa))
           /\ \A i \in 1..Len(memoria.quadros) :
                  memoria.quadros[i] # Some(pagina_de(UltimoVa))
           /\ pc \in {"saiu", "objeto"}
           /\ pc = "saiu" =>
                  /\ erro = Some(ERRO_LEITURA)
                  /\ Len(C12_Traduzidas) = memoria.acessos - 1
    /\ (memoria # None /\ chamada # None /\ memoria.saiu = None) =>
           /\ Val(chamada).ret # None
           /\ Len(FileRead(memoria.store_tam, pagina_de(UltimoVa) * page_size, page_size))
                  = page_size

C12_Passo ==
    /\ C12_Abortou => UNCHANGED <<memoria, chamada, saida, pc>>
    /\ (pc \in {"loop", "objeto"} /\ memoria.saiu = None /\ memoria'.saiu # None) =>
           /\ memoria'.physical_memory = memoria.physical_memory
           /\ memoria'.quadros = memoria.quadros
           /\ memoria'.acessos = memoria.acessos + 1
           /\ memoria'.page_faults = memoria.page_faults + 1

C12_LeituraCurtaAborta == []C12_Estado /\ [][C12_Passo]_vars

\* main has translated an address and then stopped at a page the store holds only
\* in part.
C12_Witness ==
    /\ C12_Abortou
    /\ pc = "saiu"
    /\ memoria.acessos > 1
    /\ Len(C12_Traduzidas) > 0
    /\ Len(FileRead(memoria.store_tam, pagina_de(UltimoVa) * page_size, page_size)) > 0

\* The short read happened while a victim was being replaced.
C12_WitnessSubstituicao ==
    /\ C12_Abortou
    /\ pc = "objeto"
    /\ SemQuadroLivre
    /\ memoria.page_faults > memoria.num_quadros

(***************************************************************************)
(* C13.  In the loop of main a line that is blank, is a PageTable or TLB   *)
(* directive in any letter case, or is non-empty and no base-10 integer    *)
(* leaves the whole MemoryManager unchanged; main stays in the loop, so    *)
(* the following lines are processed, and the line never ends the run.     *)
(***************************************************************************)
C13_Brancas == {<<"\n">>, <<" ", "\n">>}
C13_Diretivas ==
    {<<"P", "a", "g", "e", "T", "a", "b", "l", "e", "\n">>, <<"t", "l", "b", "\n">>}
C13_NaoInteiras == {<<"a", "b", "c", "\n">>, <<"1", " ", "2", "\n">>}

\* One line has just been read: lidas counts it and linha holds it.
C13_LeuLinha == lidas' = lidas + 1

C13_Passo ==
    (C13_LeuLinha /\ linha' \in {Some(l) : l \in C13_Brancas \cup C13_Diretivas \cup C13_NaoInteiras}) =>
        /\ memoria' = memoria
        /\ chamada' = chamada
        /\ pc = "loop" /\ pc' = "loop"
        /\ erro' = erro
        /\ IF Val(linha') \in C13_Diretivas
           THEN /\ Len(saida') = Len(saida) + 1
                /\ SubSeq(saida', 1, Len(saida)) = saida
                /\ saida'[Len(saida')].tipo =
                       (IF Val(linha') = <<"t", "l", "b", "\n">> THEN "TLB" ELSE "PageTable")
           ELSE saida' = saida

\* The lines that are integers are translated, in the order read.
C13_PassoEndereco ==
    (C13_LeuLinha /\ linha' \notin {Some(l) : l \in C13_Brancas \cup C13_Diretivas \cup C13_NaoInteiras}) =>
        /\ memoria'.acessos = memoria.acessos + 1
        /\ chamada' # None
        /\ Val(chamada').va \in {4660, 200, 0 - 1}

C13_LinhaIgnorada == [][C13_Passo /\ C13_PassoEndereco]_vars

\* A line that is no integer has been read after one translation: the object is
\* as the translation left it and main is still in the loop.
C13_Witness ==
    /\ pc = "loop"
    /\ linha = Some(<<"a", "b", "c", "\n">>)
    /\ lidas = 2
    /\ memoria.acessos = 1
    /\ memoria.page_faults = 1
    /\ Len(saida) = 1
    /\ erro = None

(***************************************************************************)
(* Vocabulary of the properties of one call, from a MemoryManager m to m2. *)
(***************************************************************************)
ResidentesEm(m) == {p \in DOMAIN m.page_table : m.page_table[p].valido}
Entradas(t) == {t[i] : i \in 1..Len(t)}
\* The call is a page fault taken with every frame occupied, and it completed.
FaltaSemQuadro(m, m2) ==
    /\ \A i \in 1..Len(m.quadros) : m.quadros[i] # None
    /\ m2.page_faults = m.page_faults + 1
    /\ m2.saiu = None

(***************************************************************************)
(* C14.  On a page fault with no free frame, under either policy, exactly  *)
(* one resident page, the victim, changes: its page-table entry stays      *)
(* present and becomes invalid, it is absent from the TLB and from         *)
(* fifo_queue / uso_recente afterwards, the faulting page becomes valid in *)
(* the frame the victim held, and the page-table entry of every other page *)
(* is unchanged.                                                           *)
(***************************************************************************)
C14_Vitima(m, m2, v, p) ==
    /\ p \notin ResidentesEm(m)
    /\ ResidentesEm(m2) = (ResidentesEm(m) \ {v}) \cup {p}
    /\ v \in DOMAIN m2.page_table
    /\ ~m2.page_table[v].valido
    /\ \A i \in 1..Len(m2.tlb) : m2.tlb[i].pagina # v
    /\ \A i \in 1..Len(m2.fifo_queue) : m2.fifo_queue[i] # v
    /\ ~DictHas(m2.uso_recente, v)
    /\ m2.page_table[p] = [quadro |-> m.page_table[v].quadro, valido |-> TRUE]
    /\ DOMAIN m2.page_table = DOMAIN m.page_table \cup {p}
    /\ \A q \in DOMAIN m.page_table \ {v, p} : m2.page_table[q] = m.page_table[q]

C14_Passo ==
    (pc = "objeto" /\ FaltaSemQuadro(memoria, memoria')) =>
        \E v \in ResidentesEm(memoria) :
            C14_Vitima(memoria, memoria', v, pagina_de(Val(chamada').va))

C14_SoAVitimaMuda == [][C14_Passo]_vars

\* Under LRU the last call faulted with every frame occupied, after some page had
\* already been evicted and loaded again; the page table holds an invalid entry.
C14_Witness ==
    /\ Completa
    /\ memoria.algoritmo = LRU
    /\ SemQuadroLivre
    /\ memoria.num_quadros > 1
    /\ pagina_de(UltimoVa) \in DOMAIN carregada
    /\ carregada[pagina_de(UltimoVa)] = memoria.acessos
    /\ memoria.page_faults > memoria.num_quadros + 1
    /\ Cardinality(DOMAIN memoria.page_table) < memoria.page_faults
    /\ Cardinality(DOMAIN memoria.page_table \ Residentes) > 0

(***************************************************************************)
(* C15.  The TLB never holds two entries for the same page.                *)
(***************************************************************************)
C15_TlbSemDuplicatas ==
    \A i, j \in 1..Len(memoria.tlb) :
        i # j => memoria.tlb[i].pagina # memoria.tlb[j].pagina

\* atualiza_tlb has just appended, to a full TLB, an entry for a page that was
\* resident already (found in the page table, not in the TLB).
C15_Witness ==
    /\ Completa
    /\ Len(memoria.tlb) = tlb_size
    /\ memoria.tlb[Len(memoria.tlb)].pagina = pagina_de(UltimoVa)
    /\ pagina_de(UltimoVa) \in DOMAIN carregada
    /\ carregada[pagina_de(UltimoVa)] < memoria.acessos
    /\ inserida[pagina_de(UltimoVa)] = memoria.acessos
    /\ memoria.acessos > memoria.tlb_hits + memoria.page_faults

(***************************************************************************)
(* C16.  An insertion into a full TLB removes the entry inserted earliest  *)
(* among the entries present, even when it was the entry hit last, under   *)
(* FIFO and under LRU; a TLB hit changes neither order nor content of the  *)
(* TLB.  (The capacity is tlb_size.)                                       *)
(***************************************************************************)
\* The TLB when atualiza_tlb runs: the entries of a page evicted by the call are gone.
C16_Restantes(m, m2) == SelectSeq(m.tlb, LAMBDA e : e.pagina \in ResidentesEm(m2))

C16_MaisAntiga(E) ==
    {e \in E : \A x \in E : x = e \/ inserida[e.pagina] < inserida[x.pagina]}

C16_Insercao(m, m2, p) ==
    /\ m2.tlb # <<>>
    /\ m2.tlb[Len(m2.tlb)].pagina = p
    /\ m2.tlb[Len(m2.tlb)].quadro = m2.page_table[p].quadro
    /\ IF Len(C16_Restantes(m, m2)) >= tlb_size
       THEN /\ Entradas(C16_Restantes(m, m2)) \ Entradas(m2.tlb)
                   = C16_MaisAntiga(Entradas(C16_Restantes(m, m2)))
            /\ Cardinality(C16_MaisAntiga(Entradas(C16_Restantes(m, m2)))) = 1
            /\ SubSeq(m2.tlb, 1, Len(m2.tlb) - 1) = Tail(C16_Restantes(m, m2))
       ELSE SubSeq(m2.tlb, 1, Len(m2.tlb) - 1) = C16_Restantes(m, m2)

C16_Passo ==
    (pc = "objeto" /\ memoria'.acessos = memoria.acessos + 1) =>
        IF \E i \in 1..Len(memoria.tlb) : memoria.tlb[i].pagina = pagina_de(Val(chamada').va)
        THEN /\ memoria'.tlb = memoria.tlb
             /\ memoria'.tlb_hits = memoria.tlb_hits + 1
        ELSE C16_Insercao(memoria, memoria', pagina_de(Val(chamada').va))

\* The entries of the TLB are in the order of their insertion.
C16_Ordem ==
    \A i, j \in 1..Len(memoria.tlb) :
        i < j => inserida[memoria.tlb[i].pagina] < inserida[memoria.tlb[j].pagina]

C16_TlbFifo == []C16_Ordem /\ [][C16_Passo]_vars

\* Under LRU, the page hit in the TLB by the call before the last was removed from
\* the full TLB by the insertion of the last call, and is still resident.
C16_Witness ==
    /\ Completa
    /\ memoria.algoritmo = LRU
    /\ Len(memoria.tlb) = tlb_size
    /\ inserida[pagina_de(UltimoVa)] = memoria.acessos
    /\ \E x \in Residentes :
           /\ ~NaTlb(x)
           /\ tocada[x] = memoria.acessos - 1
           /\ inserida[x] < tocada[x]

\* The same under FIFO.
C16_WitnessFifo ==
    /\ Completa
    /\ memoria.algoritmo = FIFO
    /\ Len(memoria.tlb) = tlb_size
    /\ inserida[pagina_de(UltimoVa)] = memoria.acessos
    /\ \E x \in Residentes :
           /\ ~NaTlb(x)
           /\ tocada[x] = memoria.acessos - 1
           /\ inserida[x] < tocada[x]

(***************************************************************************)
(* C17.  After every completed call the bookkeeping of the active policy   *)
(* covers exactly the resident pages: under FIFO fifo_queue holds each     *)
(* valid page exactly once and no other page; under LRU the keys of        *)
(* uso_recente are the valid pages.                                        *)
(***************************************************************************)
C17_Vezes(q, p) == Cardinality({i \in 1..Len(q) : q[i] = p})

C17_Cobertura ==
    memoria.saiu = None =>
        /\ memoria.algoritmo = FIFO =>
               /\ \A p \in Residentes : C17_Vezes(memoria.fifo_queue, p) = 1
               /\ \A i \in 1..Len(memoria.fifo_queue) : memoria.fifo_queue[i] \in Residentes
        /\ memoria.algoritmo = LRU =>
               /\ {memoria.uso_recente[i].pagina : i \in 1..Len(memoria.uso_recente)}
                      = Residentes
               /\ \A p \in Residentes :
                      Cardinality({i \in 1..Len(memoria.uso_recente) :
                                      memoria.uso_recente[i].pagina = p}) = 1

\* Under LRU a page was evicted and some evicted page is still out: the page table
\* knows more pages than uso_recente.
C17_Witness ==
    /\ Completa
    /\ memoria.algoritmo = LRU
    /\ memoria.page_faults > memoria.num_quadros
    /\ Len(memoria.uso_recente) = memoria.num_quadros
    /\ Cardinality(DOMAIN memoria.page_table) > Len(memoria.uso_recente)

\* The same under FIFO, after a page evicted earlier was loaded again.
C17_WitnessFifo ==
    /\ Completa
    /\ memoria.algoritmo = FIFO
    /\ memoria.page_faults > Cardinality(DOMAIN memoria.page_table)
    /\ Len(memoria.fifo_queue) = memoria.num_quadros
    /\ Cardinality(DOMAIN memoria.page_table) > Len(memoria.fifo_queue)

(***************************************************************************)
(* C18.  After every completed call, under either policy: no two valid     *)
(* pages name the same frame, at most num_quadros pages are valid, every   *)
(* valid entry's frame is in 0..num_quadros-1, and quadros[f] = p exactly  *)
(* when p has a valid entry naming frame f.                                *)
(***************************************************************************)
C18_Paginas == 0..255

C18_QuadrosConsistentes ==
    memoria.saiu = None =>
        /\ \A p, q \in Residentes :
               p # q => memoria.page_table[p].quadro # memoria.page_table[q].quadro
        /\ Cardinality(Residentes) <= memoria.num_quadros
        /\ \A p \in Residentes :
               /\ memoria.page_table[p].quadro >= 0
               /\ memoria.page_table[p].quadro <= memoria.num_quadros - 1
        /\ Len(memoria.quadros) = memoria.num_quadros
        /\ \A f \in 0..(memoria.num_quadros - 1), p \in C18_Paginas :
               (memoria.quadros[f + 1] = Some(p))
                   <=> (Valida(p) /\ memoria.page_table[p].quadro = f)

\* After an eviction on several frames: an invalid entry still names the frame that
\* a valid entry of another page names now.
C18_Witness ==
    /\ Completa
    /\ memoria.num_quadros > 1
    /\ Cardinality(Residentes) = memoria.num_quadros
    /\ \E v \in DOMAIN memoria.page_table \ Residentes, p \in Residentes :
           memoria.page_table[v].quadro = memoria.page_table[p].quadro

(***************************************************************************)
(* C19.  A frame that holds a page never becomes free again; a page fault  *)
(* taken while a frame is free puts the page into a free frame and         *)
(* invalidates no page; a page is invalidated only when no frame is free.  *)
(***************************************************************************)
C19_Livres(m) == {i \in 1..Len(m.quadros) : m.quadros[i] = None}

C19_FaltaComLivre(m, m2, p) ==
    /\ ResidentesEm(m2) = ResidentesEm(m) \cup {p}
    /\ \A q \in DOMAIN m.page_table \ {p} : m2.page_table[q] = m.page_table[q]
    /\ \E i \in C19_Livres(m) :
           /\ C19_Livres(m2) = C19_Livres(m) \ {i}
           /\ m2.quadros[i] = Some(p)
           /\ m2.page_table[p] = [quadro |-> i - 1, valido |-> TRUE]
           /\ \A j \in 1..Len(m.quadros) : j # i => m2.quadros[j] = m.quadros[j]

C19_Passo ==
    pc = "objeto" =>
        /\ C19_Livres(memoria') \subseteq C19_Livres(memoria)
        /\ (C19_Livres(memoria) # {} /\ memoria'.page_faults = memoria.page_faults + 1) =>
               C19_FaltaComLivre(memoria, memoria', pagina_de(Val(chamada').va))
        /\ ~(ResidentesEm(memoria) \subseteq ResidentesEm(memoria')) =>
               C19_Livres(memoria) = {}

C19_QuadroNuncaLivre == [][C19_Passo]_vars

\* The last free frame of three has just been taken by a fault, after hits; no page
\* has been invalidated so far.
C19_Witness ==
    /\ Completa
    /\ memoria.num_quadros = 3
    /\ SemQuadroLivre
    /\ memoria.page_faults = 3
    /\ memoria.acessos > 3
    /\ carregada[pagina_de(UltimoVa)] = memoria.acessos
    /\ DOMAIN memoria.page_table = Residentes

(***************************************************************************)
(* C20.  The physical address returned by acessar(va) is frame * 256 +     *)
(* (va & 0xFF), frame being the frame of the valid page-table entry of     *)
(* va's page when the call returns; so it is in 0 .. num_quadros * 256 - 1 *)
(* and its low 8 bits are the low 8 bits of va.                            *)
(***************************************************************************)
\* The page of va: bits 8..15 of va in two's complement.
C20_Pagina == (UltimoVa % 65536) \div 256

C20_EnderecoFisico ==
    Completa =>
        /\ Valida(C20_Pagina)
        /\ EnderecoFisico = memoria.page_table[C20_Pagina].quadro * 256 + (UltimoVa % 256)
        /\ EnderecoFisico >= 0
        /\ EnderecoFisico < memoria.num_quadros * 256
        /\ EnderecoFisico % 256 = UltimoVa % 256

\* A negative address was translated into a frame other than frame 0, after an
\* eviction.
C20_Witness ==
    /\ Completa
    /\ UltimoVa < 0
    /\ UltimoVa % 256 = 255
    /\ EnderecoFisico >= 256
    /\ memoria.page_faults > memoria.num_quadros
    /\ carregada[C20_Pagina] = memoria.acessos

(***************************************************************************)
(* C21.  When the updates of a call of acessar are observed one by one, a  *)
(* state is reached in which the TLB holds an entry whose page has no      *)
(* valid page-table entry naming the same frame; between whole calls no    *)
(* such state is reached, and the call executed update by update ends in   *)
(* the state and with the result of the call executed as one step.         *)
(***************************************************************************)
C21_TlbCoerente ==
    \A i \in 1..Len(memoria.tlb) :
        /\ memoria.tlb[i].pagina \in DOMAIN memoria.page_table
        /\ memoria.page_table[memoria.tlb[i].pagina].valido
        /\ memoria.page_table[memoria.tlb[i].pagina].quadro = memoria.tlb[i].quadro

C21_EntreChamadas == passo = None => C21_TlbCoerente

C21_Retorno ==
    (passo # None /\ passo' = None) =>
        /\ memoria' = Val(passo).esperado.self
        /\ Val(chamada').ret = Val(passo).esperado.ret

C21_SoAtomicaPreserva == []C21_EntreChamadas /\ [][C21_Retorno]_vars

\* Inside a call, after the victim's entry was invalidated and before it left the
\* TLB: the TLB names a page that is not valid.
C21_Witness ==
    /\ passo # None
    /\ Val(passo).em = "remover_da_tlb"
    /\ ~C21_TlbCoerente
    /\ \E i \in 1..Len(memoria.tlb) :
           /\ memoria.tlb[i].pagina = Val(Val(passo).vitima)
           /\ ~memoria.page_table[memoria.tlb[i].pagina].valido

(***************************************************************************)
(* Vocabulary of the properties of simulador_v1.py.                        *)
(***************************************************************************)
ResidentesV1(g) == {p \in DOMAIN g.page_table : g.page_table[p] # None}
\* The call faulted with no free frame.
FaltaSemQuadroV1(g, g2) == g.free_frames = <<>> /\ g2.page_faults = g.page_faults + 1
\* A translation was made by simulador_v1.py and has returned.
SanidadeV1 ==
    (pc = "v1" /\ chamada # None) =>
        /\ Val(chamada).ret # None
        /\ Val(Val(chamada).ret)[2] = StoreByte(Val(chamada).va % 65536)

(***************************************************************************)
(* C22.  In simulador_v1.py under FIFO, a page fault with no free frame    *)
(* evicts the earliest-loaded page that is still resident, in whatever     *)
(* order the resident pages were loaded.                                   *)
(***************************************************************************)
C22_Passo ==
    (pc = "v1" /\ Val(v1).page_replacement_algorithm = FIFO
        /\ FaltaSemQuadroV1(Val(v1), Val(v1'))) =>
        \E v \in ResidentesV1(Val(v1)) :
            /\ ResidentesV1(Val(v1)) \ ResidentesV1(Val(v1')) = {v}
            /\ \A q \in ResidentesV1(Val(v1)) : q = v \/ carregada[v] < carregada[q]

C22_FifoV1 == [][C22_Passo]_vars

(***************************************************************************)
(* C23.  In simulador_v1.py under LRU, a page fault with no free frame     *)
(* evicts the least recently accessed resident page, a TLB hit counting as *)
(* an access: on 4 frames, after p0..p3 were loaded and p0 accessed again, *)
(* the fault on p4 evicts p1 and not p0.                                   *)
(***************************************************************************)
C23_Passo ==
    (pc = "v1" /\ Val(v1).page_replacement_algorithm = LRU
        /\ FaltaSemQuadroV1(Val(v1), Val(v1'))) =>
        \E v \in ResidentesV1(Val(v1)) :
            /\ ResidentesV1(Val(v1)) \ ResidentesV1(Val(v1')) = {v}
            /\ \A q \in ResidentesV1(Val(v1)) : q = v \/ tocada[v] < tocada[q]

\* Pages 0, 1, 2, 18 loaded by calls 1..4, page 0 accessed by call 5, page 255
\* faulted by call 6.
C23_TracoExemplo ==
    /\ pc = "v1"
    /\ Val(v1).page_replacement_algorithm = LRU
    /\ Len(Val(v1).free_frames) = 0
    /\ NumChamadas = 6
    /\ Val(v1).page_faults = 5
    /\ DOMAIN carregada = {0, 1, 2, 18, 255}
    /\ carregada[0] = 1 /\ carregada[1] = 2 /\ carregada[2] = 3 /\ carregada[18] = 4
    /\ carregada[255] = 6
    /\ tocada[0] = 5

C23_Exemplo == C23_TracoExemplo => ResidentesV1(Val(v1)) = {0, 2, 18, 255}

C23_LruV1 == []C23_Exemplo /\ [][C23_Passo]_vars

(***************************************************************************)
(* C24.  With 1 <= num_quadros <= the TLB capacity, every resident page is *)
(* in the TLB after each call, the TLB never loses an entry to capacity,   *)
(* no call is a TLB miss on a valid page, and tlb_hits + page_faults =     *)
(* acessos.  (The capacity is tlb_size.)                                   *)
(***************************************************************************)
C24_Estado ==
    (memoria.num_quadros >= 1 /\ memoria.num_quadros <= tlb_size) =>
        /\ \A p \in Residentes : NaTlb(p)
        /\ Len(memoria.tlb) = Cardinality(Residentes)
        /\ memoria.tlb_hits + memoria.page_faults = memoria.acessos

C24_Passo ==
    (pc = "objeto" /\ memoria.num_quadros <= tlb_size
        /\ memoria'.acessos = memoria.acessos + 1) =>
        /\ \/ memoria'.tlb_hits = memoria.tlb_hits + 1 /\ memoria'.page_faults = memoria.page_faults
           \/ memoria'.tlb_hits = memoria.tlb_hits /\ memoria'.page_faults = memoria.page_faults + 1
        /\ \A e \in Entradas(memoria.tlb) :
               e \in Entradas(memoria'.tlb) \/ e.pagina \notin ResidentesEm(memoria')

C24_TlbCobreResidentes == []C24_Estado /\ [][C24_Passo]_vars

\* As many frames as TLB entries, all in use and all in the TLB, after a page was
\* evicted and after TLB hits.
C24_Witness ==
    /\ Completa
    /\ memoria.num_quadros = tlb_size
    /\ Len(memoria.tlb) = tlb_size
    /\ memoria.page_faults > memoria.num_quadros
    /\ memoria.tlb_hits > 0

\* With more frames than TLB entries a call misses the TLB on a valid page.
C24_WitnessMaisQuadros ==
    /\ Completa
    /\ memoria.num_quadros > tlb_size
    /\ memoria.tlb_hits + memoria.page_faults < memoria.acessos

(***************************************************************************)
(* C25.  Under LRU, after every completed call the timestamps of           *)
(* uso_recente are pairwise distinct and between 1 and clock, the page     *)
(* just accessed has the timestamp clock and every other a smaller one,    *)
(* and the timestamp of each resident page is the clock of its most recent *)
(* access; so the minimum taken for the victim is unique.                  *)
(***************************************************************************)
C25_Tempo(p) ==
    memoria.uso_recente[CHOOSE i \in 1..Len(memoria.uso_recente) :
                            memoria.uso_recente[i].pagina = p].tempo

C25_Timestamps ==
    (memoria.algoritmo = LRU /\ Completa) =>
        /\ memoria.clock = memoria.acessos
        /\ \A i, j \in 1..Len(memoria.uso_recente) :
               i # j => memoria.uso_recente[i].tempo # memoria.uso_recente[j].tempo
        /\ \A i \in 1..Len(memoria.uso_recente) :
               /\ memoria.uso_recente[i].tempo >= 1
               /\ memoria.uso_recente[i].tempo <= memoria.clock
               /\ memoria.uso_recente[i].pagina = ((UltimoVa % 65536) \div 256)
                      <=> memoria.uso_recente[i].tempo = memoria.clock
        /\ DictHas(memoria.uso_recente, (UltimoVa % 65536) \div 256)
        /\ \A p \in Residentes : DictHas(memoria.uso_recente, p) /\ C25_Tempo(p) = tocada[p]
        /\ Cardinality({i \in 1..Len(memoria.uso_recente) :
               \A j \in 1..Len(memoria.uso_recente) :
                   memoria.uso_recente[i].tempo <= memoria.uso_recente[j].tempo}) = 1

\* Three resident pages under LRU whose order in uso_recente is not the order of
\* their timestamps: the first key does not hold the minimum.
C25_Witness ==
    /\ Completa
    /\ memoria.algoritmo = LRU
    /\ Len(memoria.uso_recente) = 3
    /\ memoria.page_faults > 3
    /\ memoria.uso_recente[1].tempo > memoria.uso_recente[2].tempo

(***************************************************************************)
(* C26.  While a trace has touched at most num_quadros distinct pages no   *)
(* page is evicted or invalidated, and page_faults is the number of        *)
(* distinct pages touched (each page faulted once); in every trace a call  *)
(* is a page fault exactly when its page has no valid page-table entry     *)
(* when it is called.                                                      *)
(***************************************************************************)
C26_Estado ==
    (Completa /\ Cardinality(DOMAIN tocada) <= memoria.num_quadros) =>
        /\ Residentes = DOMAIN tocada
        /\ DOMAIN memoria.page_table = Residentes
        /\ memoria.page_faults = Cardinality(DOMAIN tocada)
        /\ \A p \in DOMAIN tocada : p \in DOMAIN carregada /\ carregada[p] <= tocada[p]

C26_Passo ==
    (pc = "objeto" /\ memoria'.acessos = memoria.acessos + 1) =>
        /\ (memoria'.page_faults = memoria.page_faults + 1)
               <=> (((Val(chamada').va % 65536) \div 256) \notin ResidentesEm(memoria))
        /\ memoria'.page_faults \in {memoria.page_faults, memoria.page_faults + 1}
        /\ Cardinality(DOMAIN tocada') <= memoria.num_quadros =>
               /\ ResidentesEm(memoria) \subseteq ResidentesEm(memoria')
               /\ carregada' = carregada
                      \/ ((Val(chamada').va % 65536) \div 256) \notin DOMAIN carregada

C26_SemSubstituicao == []C26_Estado /\ [][C26_Passo]_vars

\* Three frames, exactly three distinct pages touched by five calls: three faults,
\* every page still valid.
C26_Witness ==
    /\ Completa
    /\ memoria.num_quadros = 3
    /\ Cardinality(DOMAIN tocada) = 3
    /\ memoria.acessos = 5
    /\ memoria.page_faults = 3
    /\ Cardinality(Residentes) = 3

====
